---- MODULE Spec2Model ----
(***************************************************************************)
(* FitCast (src/app.py): a Streamlit script.  Every user interaction        *)
(* re-executes the whole script top to bottom against the session state     *)
(* (generate_outfit, weather_data) and the current widget values.           *)
(*                                                                          *)
(* Spec      the session: one action per widget interaction, each action    *)
(*           being one complete execution of the script.                    *)
(* SpecCore  the four helper functions applied to inputs drawn from         *)
(*           bounded sets (keys outside the lookup tables included).        *)
(***************************************************************************)
EXTENDS Integers, FiniteSets, Sequences, TLC

VARIABLES
    page,            \* st.sidebar.radio "Go to"                 (line 58)
    city,            \* st.sidebar.selectbox "City"              (line 69)
    style,           \* st.sidebar.selectbox "Style"             (line 74)
    selected_day,    \* st.sidebar.date_input "Day"              (line 79)
    comfort_level,   \* st.sidebar.radio "My comfort level"      (line 84)
    show_shoes,      \* st.sidebar.checkbox                      (line 95)
    button,          \* value st.sidebar.button returned in the last run (line 97)
    generate_outfit, \* st.session_state.generate_outfit         (line 48)
    weather_data,    \* st.session_state.weather_data            (line 51)
    out,             \* what the last run rendered in the main area
    invoked,         \* helper functions the last run called
    rnd,             \* the last draws of np.random (lines 124, 130)
    clicked,         \* history: "Get my outfit" was clicked at least once
    last_reading,    \* history: reading made by the last generating Planner run
    call             \* SpecCore: the last direct application of a helper

vars == <<page, city, style, selected_day, comfort_level, show_shoes, button,
          generate_outfit, weather_data, out, invoked, rnd, clicked,
          last_reading, call>>

shell_vars == <<page, city, style, selected_day, comfort_level, show_shoes,
                button, generate_outfit, weather_data, out, invoked, rnd,
                clicked, last_reading>>

----------------------------------------------------------------------------
(* Bounds of the model *)

MaxDay == 2          \* days selectable in the date input: 1..MaxDay, today = 1
TempLo == 50         \* temperatures fed to the helpers directly
TempHi == 90
MaxShift == 3        \* shifts k of the temperature: -MaxShift..MaxShift

Days == 1..MaxDay
Today == 1
Temps == TempLo..TempHi
Shifts == (0 - MaxShift)..MaxShift

----------------------------------------------------------------------------
(* Widget option lists *)

Pages == <<"Home", "Outfit Planner", "Forecast Details", "About HCI Choices">>

Cities == <<"Miami", "New York", "Chicago", "Los Angeles">>

Styles == <<"Cozy", "Casual", "Dressy", "Sporty">>

ComfortLevels == <<"I am a furnace", "I run warm", "I am normal", "I run cold",
                   "I am freezing all the time">>

RainChances == <<"Low", "Medium", "High">>

Range(s) == {s[i] : i \in DOMAIN s}

\* np.random.randint(-2, 3): low inclusive, high exclusive
RandLow == -2
RandHigh == 3
Perturbations == RandLow..(RandHigh - 1)

\* Python's None, and a value held in an optional slot
None == [tag |-> "None"]
Some(v) == [tag |-> "Some", val |-> v]

\* A Python call either returns a value or raises
Return(v) == [ok |-> TRUE, val |-> v]
Raise(e, k) == [ok |-> FALSE, exception |-> e, key |-> k]

\* Variant: d.get(k, default), a missing key answered with an entry of the table
Lookup_withDefault(d, k) ==
    IF k \in DOMAIN d THEN Return(d[k])
    ELSE Return(d[CHOOSE x \in DOMAIN d : TRUE])

\* d[k] on a dict: the value, or KeyError(k)
Lookup(d, k) == IF k \in DOMAIN d THEN Return(d[k]) ELSE Raise("KeyError", k)

----------------------------------------------------------------------------
(* Helper functions *)

base ==
    ("Miami" :> <<75, 85>>) @@ ("New York" :> <<60, 72>>) @@
    ("Chicago" :> <<55, 68>>) @@ ("Los Angeles" :> <<65, 78>>)

\* Variant: the offsets with their signs exchanged
adjustments_signFlipped ==
    ("I am a furnace" :> -6) @@ ("I run warm" :> -3) @@ ("I am normal" :> 0) @@
    ("I run cold" :> 3) @@ ("I am freezing all the time" :> 6)

adjustments ==
    ("I am a furnace" :> 6) @@ ("I run warm" :> 3) @@ ("I am normal" :> 0) @@
    ("I run cold" :> -3) @@ ("I am freezing all the time" :> -6)

bottoms ==
    ("Cozy" :> "soft pants or leggings") @@ ("Casual" :> "jeans") @@
    ("Dressy" :> "tailored pants or skirt") @@ ("Sporty" :> "athletic bottoms")

\* Variant: rounds half up instead of truncating
PyIntOfHalves_roundHalfUp(twice) == (twice + 1) \div 2

\* int(x) for the float x = twice/2: truncation toward zero.
\* (low + high)/2 is true division, so x is an integer or a half-integer,
\* exactly representable as a float at these magnitudes.
PyIntOfHalves(twice) ==
    IF twice >= 0 THEN twice \div 2 ELSE 0 - ((0 - twice) \div 2)

\* get_mock_weather(city) with the two random draws made explicit:
\* p = np.random.randint(-2, 3), rain = np.random.choice([...])
get_mock_weather(c, p, rain) ==
    LET found == Lookup(base, c) IN
    IF ~found.ok THEN found
    ELSE LET low == found.val[1]
             high == found.val[2]
         IN Return([low |-> low,
                    high |-> high,
                    feels_like |-> PyIntOfHalves((low + high) + 2 * p),
                    rain_chance |-> rain])

\* Variant: the adjusted temperature is capped at 85
adjust_for_comfort_capped(feels_like, comfort) ==
    LET found == Lookup(adjustments, comfort) IN
    IF ~found.ok THEN found
    ELSE Return(IF feels_like + found.val > 85 THEN 85 ELSE feels_like + found.val)

adjust_for_comfort(feels_like, comfort) ==
    LET found == Lookup(adjustments, comfort) IN
    IF ~found.ok THEN found ELSE Return(feels_like + found.val)

\* Variant: strict comparisons, so a boundary value falls into the lower band
Band_strict(adjusted_temp) ==
    IF adjusted_temp > 80 THEN <<"light tank or breathable tee", "no jacket needed">>
    ELSE IF adjusted_temp > 70 THEN <<"short-sleeve shirt", "optional light layer">>
    ELSE IF adjusted_temp > 60 THEN <<"long-sleeve top", "light jacket or cardigan">>
    ELSE <<"warm sweater", "jacket or coat">>

\* the if/elif chain of generate_outfit: <<top, outer>>
Band(adjusted_temp) ==
    IF adjusted_temp >= 80 THEN <<"light tank or breathable tee", "no jacket needed">>
    ELSE IF adjusted_temp >= 70 THEN <<"short-sleeve shirt", "optional light layer">>
    ELSE IF adjusted_temp >= 60 THEN <<"long-sleeve top", "light jacket or cardigan">>
    ELSE <<"warm sweater", "jacket or coat">>

\* Variant: the bottom follows the temperature band in cold weather
generate_outfit_fn_warmBottom(adjusted_temp, s) ==
    LET found == Lookup(bottoms, s) IN
    IF ~found.ok THEN found
    ELSE Return([top |-> Band(adjusted_temp)[1],
                 outer |-> Band(adjusted_temp)[2],
                 bottom |-> IF adjusted_temp < 60 THEN "soft pants or leggings"
                            ELSE found.val])

generate_outfit_fn(adjusted_temp, s) ==
    LET found == Lookup(bottoms, s) IN
    IF ~found.ok THEN found
    ELSE Return([top |-> Band(adjusted_temp)[1],
                 outer |-> Band(adjusted_temp)[2],
                 bottom |-> found.val])

\* Variant: the temperature is tested before the rain
shoe_suggestion_tempFirst(adjusted_temp, rain) ==
    IF adjusted_temp >= 75 THEN "sandals or breathable sneakers"
    ELSE IF rain = "High" THEN "water-resistant shoes"
    ELSE IF adjusted_temp >= 60 THEN "sneakers or flats"
    ELSE "closed-toe shoes or boots"

shoe_suggestion(adjusted_temp, rain) ==
    IF rain = "High" THEN "water-resistant shoes"
    ELSE IF adjusted_temp >= 75 THEN "sandals or breathable sneakers"
    ELSE IF adjusted_temp >= 60 THEN "sneakers or flats"
    ELSE "closed-toe shoes or boots"

----------------------------------------------------------------------------
(* The script *)

\* Variant: the flag follows the button, so it is lost in the next run
FlagAfterButton_momentary(flag, btn) == btn

\* lines 97-98: the flag after the button is processed
FlagAfterButton(flag, btn) == IF btn THEN TRUE ELSE flag

\* Variant: the page generates without looking at the flag
PlannerGenerates_always(flag) == TRUE

\* line 211: does the Outfit Planner page generate an outfit in this run?
PlannerGenerates(flag) == flag

\* lines 214-243: the Outfit Planner page when it generates
PlannerView(c, s, d, cl, sh, p, rain) ==
    LET weather == get_mock_weather(c, p, rain).val
        adjusted_temp == adjust_for_comfort(weather.feels_like, cl).val
        outfit == generate_outfit_fn(adjusted_temp, s).val
    IN [kind |-> "outfit",
        city |-> c,
        day |-> d,
        top |-> outfit.top,
        outer |-> outfit.outer,
        bottom |-> outfit.bottom,
        style |-> s,
        feels_like |-> weather.feels_like,
        adjusted_temp |-> adjusted_temp,
        rain_chance |-> weather.rain_chance,
        shoes |-> IF sh THEN Some(shoe_suggestion(adjusted_temp, weather.rain_chance))
                  ELSE None]

\* lines 251-268: the Forecast Details page
ForecastView(wd) ==
    IF wd = None THEN [kind |-> "generate an outfit first"]
    ELSE [kind |-> "forecast table",
          low |-> wd.val.low,
          high |-> wd.val.high,
          feels_like |-> wd.val.feels_like,
          rain_chance |-> wd.val.rain_chance]

\* lines 190-300: the main area of the page selected
View(pg, c, s, d, cl, sh, flag, wd, p, rain) ==
    IF pg = "Home" THEN [kind |-> "welcome"]
    ELSE IF pg = "Outfit Planner" THEN
        IF ~PlannerGenerates(flag) THEN [kind |-> "awaiting input"]
        ELSE PlannerView(c, s, d, cl, sh, p, rain)
    ELSE IF pg = "Forecast Details" THEN ForecastView(wd)
    ELSE [kind |-> "about"]

\* the helper functions a run calls
Invoked(pg, sh, flag) ==
    IF pg = "Outfit Planner" /\ PlannerGenerates(flag)
    THEN {"get_mock_weather", "adjust_for_comfort", "generate_outfit"}
             \cup (IF sh THEN {"shoe_suggestion"} ELSE {})
    ELSE {}

\* Variant: the slot is cleared by every run that does not generate
StoredWeather_cleared(pg, c, flag, wd, p, rain) ==
    IF pg = "Outfit Planner" /\ PlannerGenerates(flag)
    THEN Some(get_mock_weather(c, p, rain).val)
    ELSE None

\* line 215, the only assignment to weather_data after initialisation
StoredWeather(pg, c, flag, wd, p, rain) ==
    IF pg = "Outfit Planner" /\ PlannerGenerates(flag)
    THEN Some(get_mock_weather(c, p, rain).val)
    ELSE wd

\* The draws of np.random a run makes: one of randint(-2, 3) and one of
\* choice([...]) when get_mock_weather is called (lines 124, 130), none otherwise
\* (a run that draws nothing is given the fixed pair <<0, "Low">>, which it
\* never reads).
Draws(pg, btn) ==
    IF pg = "Outfit Planner" /\ PlannerGenerates(FlagAfterButton(generate_outfit, btn))
    THEN Perturbations \X Range(RainChances)
    ELSE {<<0, "Low">>}

\* One execution of the script with the given widget values, button value and
\* random draws.
Script(pg, c, s, d, cl, sh, btn, p, rain) ==
    LET flag == FlagAfterButton(generate_outfit, btn)
        generates == pg = "Outfit Planner" /\ PlannerGenerates(flag)
    IN /\ page' = pg
       /\ city' = c
       /\ style' = s
       /\ selected_day' = d
       /\ comfort_level' = cl
       /\ show_shoes' = sh
       /\ button' = btn
       /\ generate_outfit' = flag
       /\ weather_data' = StoredWeather(pg, c, flag, weather_data, p, rain)
       /\ out' = View(pg, c, s, d, cl, sh, flag, weather_data, p, rain)
       /\ invoked' = Invoked(pg, sh, flag)
       /\ rnd' = IF generates THEN Some([p |-> p, rain |-> rain]) ELSE rnd
       /\ clicked' = (clicked \/ btn)
       /\ last_reading' = IF generates /\ get_mock_weather(c, p, rain).ok
                          THEN Some(get_mock_weather(c, p, rain).val)
                          ELSE last_reading
       /\ UNCHANGED call

\* The session after the first execution of the script: every widget at its
\* default (first option, today, checkbox ticked), the button not clicked.
Init ==
    /\ page = Pages[1]
    /\ city = Cities[1]
    /\ style = Styles[1]
    /\ selected_day = Today
    /\ comfort_level = ComfortLevels[1]
    /\ show_shoes = TRUE
    /\ button = FALSE
    /\ generate_outfit = FALSE
    /\ weather_data = None
    /\ out = [kind |-> "welcome"]
    /\ invoked = {}
    /\ rnd = None
    /\ clicked = FALSE
    /\ last_reading = None
    /\ call = [fn |-> "none"]

SelectPage ==
    \E pg \in Range(Pages) \ {page} : \E dr \in Draws(pg, FALSE) :
        Script(pg, city, style, selected_day, comfort_level, show_shoes, FALSE,
               dr[1], dr[2])

SelectCity ==
    \E c \in Range(Cities) \ {city} : \E dr \in Draws(page, FALSE) :
        Script(page, c, style, selected_day, comfort_level, show_shoes, FALSE,
               dr[1], dr[2])

SelectStyle ==
    \E s \in Range(Styles) \ {style} : \E dr \in Draws(page, FALSE) :
        Script(page, city, s, selected_day, comfort_level, show_shoes, FALSE,
               dr[1], dr[2])

SelectDay ==
    \E d \in Days \ {selected_day} : \E dr \in Draws(page, FALSE) :
        Script(page, city, style, d, comfort_level, show_shoes, FALSE,
               dr[1], dr[2])

SelectComfort ==
    \E cl \in Range(ComfortLevels) \ {comfort_level} : \E dr \in Draws(page, FALSE) :
        Script(page, city, style, selected_day, cl, show_shoes, FALSE,
               dr[1], dr[2])

ToggleShoes ==
    \E dr \in Draws(page, FALSE) :
        Script(page, city, style, selected_day, comfort_level, ~show_shoes, FALSE,
               dr[1], dr[2])

ClickGetMyOutfit ==
    \E dr \in Draws(page, TRUE) :
        Script(page, city, style, selected_day, comfort_level, show_shoes, TRUE,
               dr[1], dr[2])

\* the "Rerun" command of the framework: the script runs again, nothing changed
Rerun ==
    \E dr \in Draws(page, FALSE) :
        Script(page, city, style, selected_day, comfort_level, show_shoes, FALSE,
               dr[1], dr[2])

Next ==
    \/ SelectPage
    \/ SelectCity
    \/ SelectStyle
    \/ SelectDay
    \/ SelectComfort
    \/ ToggleShoes
    \/ ClickGetMyOutfit
    \/ Rerun

Spec == Init /\ [][Next]_vars

----------------------------------------------------------------------------
(* The helper functions applied directly: one application per behaviour, to  *)
(* inputs drawn from the bounded sets.                                       *)

NotCalled == call.fn = "none"

\* keys outside the lookup tables
OtherCity == "Boston"
OtherComfort == "I am always hot"
OtherStyle == "Punk"

CityKeys == Range(Cities) \cup {OtherCity}
ComfortKeys == Range(ComfortLevels) \cup {OtherComfort}
StyleKeys == Range(Styles) \cup {OtherStyle}

CallGetMockWeather ==
    /\ NotCalled
    /\ \E c \in CityKeys, p \in Perturbations, rain \in Range(RainChances) :
          call' = [fn |-> "get_mock_weather", city |-> c, p |-> p, rain |-> rain,
                   res |-> get_mock_weather(c, p, rain)]
    /\ UNCHANGED shell_vars

\* adjust_for_comfort at a temperature and at the temperature shifted by k
CallAdjustForComfort ==
    /\ NotCalled
    /\ \E t \in Temps, k \in Shifts, cl \in ComfortKeys :
          call' = [fn |-> "adjust_for_comfort", feels_like |-> t, k |-> k,
                   comfort |-> cl,
                   res |-> adjust_for_comfort(t, cl),
                   res_shifted |-> adjust_for_comfort(t + k, cl)]
    /\ UNCHANGED shell_vars

\* generate_outfit at two (temperature, style) pairs
CallGenerateOutfit ==
    /\ NotCalled
    /\ \E t1 \in Temps, t2 \in Temps, s1 \in StyleKeys, s2 \in StyleKeys :
          call' = [fn |-> "generate_outfit",
                   adjusted_temp |-> t1, style |-> s1,
                   res |-> generate_outfit_fn(t1, s1),
                   adjusted_temp2 |-> t2, style2 |-> s2,
                   res2 |-> generate_outfit_fn(t2, s2)]
    /\ UNCHANGED shell_vars

CallShoeSuggestion ==
    /\ NotCalled
    /\ \E t \in Temps, rain \in Range(RainChances) :
          call' = [fn |-> "shoe_suggestion", adjusted_temp |-> t, rain |-> rain,
                   res |-> Return(shoe_suggestion(t, rain))]
    /\ UNCHANGED shell_vars

NextCore ==
    \/ CallGetMockWeather
    \/ CallAdjustForComfort
    \/ CallGenerateOutfit
    \/ CallShoeSuggestion

SpecCore == Init /\ [][NextCore]_vars

----------------------------------------------------------------------------
(* Properties *)

\* round(x) for x = twice/2, halves to the even neighbour (Python's round);
\* rounding halves up gives the same values on the four cities
RoundOfHalves(twice) ==
    LET fl == PyIntOfHalves(twice) IN
    IF twice % 2 = 0 THEN fl ELSE IF fl % 2 = 0 THEN fl ELSE fl + 1

IsWeatherCall == call.fn = "get_mock_weather" /\ call.city \in Range(Cities)

\* C1 as stated: for every city of the table and every perturbation, low and
\* high are the city's table entry, low <= high, feels_like lies within
\* [(low+high)/2 - 2, (low+high)/2 + 2] and equals round((low+high)/2) plus the
\* perturbation.
C1_Original ==
    IsWeatherCall =>
        LET low == base[call.city][1]
            high == base[call.city][2]
            w == call.res.val
        IN /\ call.res.ok
           /\ w.low = low /\ w.high = high /\ low <= high
           /\ 2 * w.feels_like >= (low + high) - 4
           /\ 2 * w.feels_like <= (low + high) + 4
           /\ w.feels_like = RoundOfHalves(low + high) + call.p

\* C1 amended: for every city of the table and every perturbation, low and
\* high are the city's table entry, low <= high, and feels_like is the midpoint
\* truncated (not rounded) plus the perturbation: floor((low+high)/2) + p, which
\* lies within [(low+high)/2 - 2.5, (low+high)/2 + 2].
C1_FeelsLikeTruncated ==
    IsWeatherCall =>
        LET low == base[call.city][1]
            high == base[call.city][2]
            w == call.res.val
        IN /\ call.res.ok
           /\ w.low = low /\ w.high = high /\ low <= high
           /\ w.feels_like = ((low + high) \div 2) + call.p
           /\ 2 * w.feels_like >= (low + high) - 5
           /\ 2 * w.feels_like <= (low + high) + 4
           /\ w.rain_chance = call.rain

C1_Witness ==
    /\ IsWeatherCall
    /\ call.city = "Chicago" /\ call.p = -2
    /\ call.res.val.feels_like = 59

IsOutfitCall == call.fn = "generate_outfit" /\ call.res.ok

\* C2: every adjusted temperature selects top and outer from exactly one of the
\* four bands >= 80, 70..79, 60..69, < 60; the boundary values 80, 70 and 60
\* belong to the higher band.
C2_Bands ==
    IsOutfitCall =>
        LET t == call.adjusted_temp
            r == call.res.val
        IN /\ t >= 80 =>
                r.top = "light tank or breathable tee" /\ r.outer = "no jacket needed"
           /\ (t >= 70 /\ t <= 79) =>
                r.top = "short-sleeve shirt" /\ r.outer = "optional light layer"
           /\ (t >= 60 /\ t <= 69) =>
                r.top = "long-sleeve top" /\ r.outer = "light jacket or cardigan"
           /\ t < 60 =>
                r.top = "warm sweater" /\ r.outer = "jacket or coat"

C2_Witness ==
    /\ IsOutfitCall
    /\ call.adjusted_temp = 70
    /\ call.res.val.top = "short-sleeve shirt"
    /\ call.res.val.outer = "optional light layer"

\* C3: with rain chance High the shoes are "water-resistant shoes" at every
\* temperature; with Low or Medium the temperature alone decides: >= 75
\* sandals or breathable sneakers, 60..74 sneakers or flats, otherwise
\* closed-toe shoes or boots.
C3_Shoes ==
    call.fn = "shoe_suggestion" =>
        LET t == call.adjusted_temp
            r == call.res.val
        IN /\ call.rain = "High" => r = "water-resistant shoes"
           /\ (call.rain # "High" /\ t >= 75) => r = "sandals or breathable sneakers"
           /\ (call.rain # "High" /\ t >= 60 /\ t <= 74) => r = "sneakers or flats"
           /\ (call.rain # "High" /\ t < 60) => r = "closed-toe shoes or boots"

C3_Witness ==
    /\ call.fn = "shoe_suggestion"
    /\ call.rain = "High" /\ call.adjusted_temp = 80
    /\ call.res.val = "water-resistant shoes"

\* C4: the bottom depends on the style alone: the same style at any two
\* temperatures gives the same bottom, and different styles give different
\* bottoms.
C4_BottomByStyle ==
    (IsOutfitCall /\ call.res2.ok) =>
        /\ call.style = call.style2 => call.res.val.bottom = call.res2.val.bottom
        /\ call.style # call.style2 => call.res.val.bottom # call.res2.val.bottom

C4_Witness ==
    /\ IsOutfitCall /\ call.res2.ok
    /\ call.style = "Casual" /\ call.style2 = "Casual"
    /\ call.adjusted_temp = 55 /\ call.adjusted_temp2 = 85
    /\ call.res.val.bottom = "jeans" /\ call.res2.val.bottom = "jeans"

\* the offsets as the claim lists them
C5_Offsets ==
    [cl \in Range(ComfortLevels) |->
        CASE cl = "I am a furnace" -> 6
          [] cl = "I run warm" -> 3
          [] cl = "I am normal" -> 0
          [] cl = "I run cold" -> -3
          [] cl = "I am freezing all the time" -> -6]

\* C5: adjust_for_comfort returns a value for each of the five comfort levels,
\* the temperature plus the level's offset (+6, +3, 0, -3, -6), and shifting the
\* temperature by k shifts the result by k.
C5_Linear ==
    (call.fn = "adjust_for_comfort" /\ call.comfort \in Range(ComfortLevels)) =>
        /\ call.res.ok /\ call.res_shifted.ok
        /\ call.res.val = call.feels_like + C5_Offsets[call.comfort]
        /\ call.res_shifted.val = call.res.val + call.k

C5_Witness ==
    /\ call.fn = "adjust_for_comfort"
    /\ call.comfort = "I am a furnace" /\ call.feels_like = 84 /\ call.k = 3
    /\ call.res.val = 90 /\ call.res_shifted.val = 93

\* C6: the Outfit Planner page for Chicago, comfort "I am freezing all the
\* time" and perturbation 0 shows feels_like 61, adjusted temperature 55, top
\* "warm sweater", outer "jacket or coat", and with style Casual bottom "jeans".
C6_ChicagoFreezing ==
    (/\ out.kind = "outfit"
     /\ out.city = "Chicago"
     /\ comfort_level = "I am freezing all the time"
     /\ rnd # None
     /\ rnd.val.p = 0) =>
        /\ out.feels_like = 61
        /\ out.adjusted_temp = 55
        /\ out.top = "warm sweater"
        /\ out.outer = "jacket or coat"
        /\ out.style = "Casual" => out.bottom = "jeans"

C6_Witness ==
    /\ out.kind = "outfit"
    /\ out.city = "Chicago"
    /\ comfort_level = "I am freezing all the time"
    /\ rnd # None
    /\ rnd.val.p = 0
    /\ out.style = "Casual"
    /\ out.bottom = "jeans"
    /\ out.feels_like = 61

C8_GatedByClick ==
    /\ invoked # {} => clicked
    /\ ~clicked =>
        /\ invoked = {}
        /\ weather_data = None
        /\ page = "Outfit Planner" => out = [kind |-> "awaiting input"]

C8_Witness ==
    /\ ~clicked
    /\ page = "Outfit Planner"
    /\ city = "Chicago"
    /\ out = [kind |-> "awaiting input"]

\* C9: weather_data is None or exactly the reading made by the most recent
\* generating run of the Outfit Planner page (so no run of another page, and
\* nothing else, changes it), and the Forecast Details page shows the low,
\* high, feels-like and rain chance of the stored reading, or the "generate an
\* outfit first" message when the slot is None.
C9_SingleSlotCache ==
    /\ weather_data = last_reading
    /\ page = "Forecast Details" =>
        IF weather_data = None
        THEN out = [kind |-> "generate an outfit first"]
        ELSE out = [kind |-> "forecast table",
                    low |-> last_reading.val.low,
                    high |-> last_reading.val.high,
                    feels_like |-> last_reading.val.feels_like,
                    rain_chance |-> last_reading.val.rain_chance]

C9_Witness ==
    /\ page = "Forecast Details"
    /\ weather_data # None
    /\ out.kind = "forecast table"
    /\ city = "Miami"
    /\ out.low = 55

C10_Step ==
    /\ generate_outfit => generate_outfit'
    /\ (~generate_outfit /\ generate_outfit') => button'
    /\ (generate_outfit /\ page' = "Outfit Planner") =>
        /\ "get_mock_weather" \in invoked'
        /\ rnd' # None
        /\ weather_data' = Some(get_mock_weather(city', rnd'.val.p, rnd'.val.rain).val)
        /\ out'.kind = "outfit"
        /\ out'.feels_like = weather_data'.val.feels_like

\* C10: the generate_outfit flag starts False, becomes True only in a run
\* started by the button, and never goes back to False; weather_data is not
\* None only if the flag is True; once the flag is True every run of the Outfit
\* Planner page, clicked or not, makes a fresh reading for the selected city
\* and stores it in weather_data.
C10_FlagMonotonic ==
    /\ ~generate_outfit
    /\ [](weather_data # None => generate_outfit)
    /\ [][C10_Step]_vars

C10_Witness ==
    /\ generate_outfit
    /\ ~button
    /\ page = "Outfit Planner"
    /\ city = "Los Angeles"
    /\ out.kind = "outfit"
    /\ weather_data # None
    /\ weather_data.val.low = 65

====
